---- MODULE Spec2Model ----
(***************************************************************************)
(* A model of the UIMPIT configuration editor (config_editor.py): the      *)
(* in-memory document config_data, the file config.json, the input         *)
(* widgets, and the handlers load_config, populate_ui, save_config,        *)
(* reset_to_defaults and apply_feature_dependencies.                       *)
(*                                                                         *)
(* Python/JSON values are tagged records; texts (widget contents, JSON     *)
(* tokens) are sequences of one-character strings, so that str(), bool(),  *)
(* int(), json.dump and json.load are computed, not assumed.               *)
(***************************************************************************)
EXTENDS Integers, Sequences, FiniteSets, TLC

VARIABLES
    phase,        \* "constructed" (init_ui done, load_config not yet run), "ready", "crashed"
    ops,          \* how many times the user has acted
    file,         \* config.json on disk: missing, corrupt (no JSON), not_utf8, or a JSON text
    config_data,  \* self.config_data: category -> value
    widgets,      \* self.widgets (the input controls) and the enabled flag of the dependent widgets
    outcome       \* how the last handler ended

vars == <<phase, ops, file, config_data, widgets, outcome>>

----------------------------------------------------------------------------
(* Values *)

IntV(n)  == [t |-> "int", i |-> n]
BoolV(b) == [t |-> "bool", b |-> b]
StrV(s)  == [t |-> "str", s |-> s]
DictV(f) == [t |-> "dict", d |-> f]
NullV    == [t |-> "null"]
ListV    == [t |-> "list"]

Unset == [c \in {} |-> NullV]

Put(f, k, v) == [x \in (DOMAIN f) \cup {k} |-> IF x = k THEN v ELSE f[x]]

----------------------------------------------------------------------------
(* Texts *)

Digits == <<"0", "1", "2", "3", "4", "5", "6", "7", "8", "9">>

DigitValues == [c \in {Digits[i] : i \in 1..10} |-> (CHOOSE i \in 1..10 : Digits[i] = c) - 1]

IsDigit(c) == c \in DOMAIN DigitValues

DigitVal(c) == DigitValues[c]

RECURSIVE NatToChars(_)
NatToChars(n) ==
    IF n < 10 THEN <<Digits[n + 1]>>
    ELSE Append(NatToChars(n \div 10), Digits[(n % 10) + 1])

RECURSIVE DigitsToNat(_)
DigitsToNat(s) ==
    IF s = <<>> THEN 0
    ELSE 10 * DigitsToNat(SubSeq(s, 1, Len(s) - 1)) + DigitVal(s[Len(s)])

T_True  == <<"T", "r", "u", "e">>
T_False == <<"F", "a", "l", "s", "e">>
T_None  == <<"N", "o", "n", "e">>
T_list  == <<"[", "]">>
J_true  == <<"t", "r", "u", "e">>
J_false == <<"f", "a", "l", "s", "e">>
J_null  == <<"n", "u", "l", "l">>

\* str(value), as populate_ui applies it to the value of a recognised field
\* (a number, a boolean, a string, null or an empty list)
py_str(v) ==
    CASE v.t = "int"  -> IF v.i < 0 THEN <<"-">> \o NatToChars(-v.i) ELSE NatToChars(v.i)
      [] v.t = "bool" -> IF v.b THEN T_True ELSE T_False
      [] v.t = "str"  -> v.s
      [] v.t = "null" -> T_None
      [] OTHER        -> T_list

\* bool(value), as populate_ui applies it to a document value
py_bool(v) ==
    CASE v.t = "int"  -> v.i # 0
      [] v.t = "bool" -> v.b
      [] v.t = "str"  -> v.s # <<>>
      [] v.t = "dict" -> DOMAIN v.d # {}
      [] OTHER        -> FALSE

RECURSIVE LStrip(_)
LStrip(s) == IF s # <<>> /\ Head(s) = " " THEN LStrip(Tail(s)) ELSE s

RECURSIVE RStrip(_)
RStrip(s) == IF s # <<>> /\ s[Len(s)] = " " THEN RStrip(SubSeq(s, 1, Len(s) - 1)) ELSE s

\* text.strip()
py_strip(s) == RStrip(LStrip(s))

Unsigned(s) == IF s # <<>> /\ Head(s) \in {"+", "-"} THEN Tail(s) ELSE s

\* int(text) raises ValueError unless the text is an optionally signed run of
\* digits, single underscores allowed between digits, blanks allowed around it
py_int_ok(s) ==
    LET body == Unsigned(py_strip(s))
    IN  /\ body # <<>>
        /\ \A i \in 1..Len(body) : IsDigit(body[i]) \/ body[i] = "_"
        /\ body[1] # "_" /\ body[Len(body)] # "_"
        /\ \A i \in 1..(Len(body) - 1) : ~(body[i] = "_" /\ body[i + 1] = "_")

py_int(s) ==
    LET t    == py_strip(s)
        body == SelectSeq(Unsigned(t), IsDigit)
    IN  IF Head(t) = "-" THEN 0 - DigitsToNat(body) ELSE DigitsToNat(body)

----------------------------------------------------------------------------
(* json.load / json.dump *)

JObj(m) == [t |-> "object", m |-> m]
JTok(s) == [t |-> "token", s |-> s]

Quoted(s) == <<"\"">> \o s \o <<"\"">>

\* one JSON scalar token as json.load reads it
json_load_token(s) ==
    CASE s = J_true       -> BoolV(TRUE)
      [] s = J_false      -> BoolV(FALSE)
      [] s = J_null       -> NullV
      [] s = T_list       -> ListV
      [] Head(s) = "\""   -> StrV(SubSeq(s, 2, Len(s) - 1))
      [] Head(s) = "-"    -> IntV(0 - DigitsToNat(Tail(s)))
      [] OTHER            -> IntV(DigitsToNat(s))

RECURSIVE json_load(_)
json_load(j) ==
    IF j.t = "object" THEN DictV([k \in DOMAIN j.m |-> json_load(j.m[k])])
    ELSE json_load_token(j.s)

RECURSIVE json_dump(_)
json_dump(v) ==
    CASE v.t = "dict" -> JObj([k \in DOMAIN v.d |-> json_dump(v.d[k])])
      [] v.t = "int"  -> JTok(py_str(v))
      [] v.t = "bool" -> JTok(IF v.b THEN J_true ELSE J_false)
      [] v.t = "str"  -> JTok(Quoted(v.s))
      [] v.t = "null" -> JTok(J_null)
      [] OTHER        -> JTok(T_list)

----------------------------------------------------------------------------
(* The defaults table *)

FALLBACK_DEFAULTS ==
    [features |-> DictV([roleplay_enabled         |-> BoolV(TRUE),
                         money_per_minute_enabled |-> BoolV(TRUE),
                         cool_message_enabled     |-> BoolV(TRUE),
                         speeding_bonus_enabled   |-> BoolV(TRUE),
                         zigzag_bonus_enabled     |-> BoolV(TRUE),
                         police_features_enabled  |-> BoolV(TRUE)]),
     general  |-> DictV([autosave_interval_ms |-> IntV(120000)]),
     money    |-> DictV([money_per_minute_interval_ms |-> IntV(60000),
                         money_per_minute_amount      |-> IntV(10),
                         starting_money               |-> IntV(3333),
                         cool_message_interval_ms     |-> IntV(30000)]),
     civilian |-> DictV([speeding_limit_kmh         |-> IntV(100),
                         speeding_bonus_duration_ms |-> IntV(60000),
                         speeding_cooldown_ms       |-> IntV(200000),
                         speeding_bonus_per_second  |-> IntV(1),
                         zigzag_bonus_duration_ms   |-> IntV(120000),
                         zigzag_cooldown_ms         |-> IntV(200000),
                         zigzag_final_bonus_amount  |-> IntV(50),
                         zigzag_prorated_bonus      |-> IntV(5),
                         min_speed_kmh_for_zigzag   |-> IntV(10),
                         zigzag_min_turns           |-> IntV(5),
                         wanted_fail_penalty        |-> IntV(50)]),
     police   |-> DictV([police_proximity_range_m |-> IntV(150),
                         busted_range_m           |-> IntV(20),
                         busted_stop_time_ms      |-> IntV(7000),
                         busted_speed_limit_kmh   |-> IntV(5),
                         police_bonus_per_second  |-> IntV(2),
                         bust_bonus_amount        |-> IntV(100)])]

Categories == DOMAIN FALLBACK_DEFAULTS

Fields(c) == DOMAIN FALLBACK_DEFAULTS[c].d

\* {k: v.copy() for k, v in FALLBACK_DEFAULTS.items()}
DefaultsCopy == [c \in Categories |-> DictV([k \in Fields(c) |-> FALLBACK_DEFAULTS[c].d[k]])]

----------------------------------------------------------------------------
(* The widgets that init_ui builds *)

\* the input controls, in the order in which self.widgets holds them
WidgetOrder ==
    << <<"features", "roleplay_enabled">>,
       <<"features", "speeding_bonus_enabled">>,
       <<"features", "zigzag_bonus_enabled">>,
       <<"features", "police_features_enabled">>,
       <<"features", "money_per_minute_enabled">>,
       <<"features", "cool_message_enabled">>,
       <<"general", "autosave_interval_ms">>,
       <<"money", "starting_money">>,
       <<"money", "money_per_minute_amount">>,
       <<"money", "money_per_minute_interval_ms">>,
       <<"money", "cool_message_interval_ms">>,
       <<"civilian", "speeding_limit_kmh">>,
       <<"civilian", "speeding_bonus_per_second">>,
       <<"civilian", "speeding_bonus_duration_ms">>,
       <<"civilian", "speeding_cooldown_ms">>,
       <<"civilian", "min_speed_kmh_for_zigzag">>,
       <<"civilian", "zigzag_min_turns">>,
       <<"civilian", "zigzag_final_bonus_amount">>,
       <<"civilian", "zigzag_prorated_bonus">>,
       <<"civilian", "zigzag_bonus_duration_ms">>,
       <<"civilian", "zigzag_cooldown_ms">>,
       <<"civilian", "wanted_fail_penalty">>,
       <<"police", "police_proximity_range_m">>,
       <<"police", "busted_range_m">>,
       <<"police", "busted_stop_time_ms">>,
       <<"police", "busted_speed_limit_kmh">>,
       <<"police", "bust_bonus_amount">>,
       <<"police", "police_bonus_per_second">> >>

WidgetCategories == {WidgetOrder[i][1] : i \in 1..Len(WidgetOrder)}

WidgetKeys(c) == {WidgetOrder[i][2] : i \in {j \in 1..Len(WidgetOrder) : WidgetOrder[j][1] = c}}

\* the keys of self.widgets that hold a label, a checkbox or a group box
\* instead of a category's controls
LabelKeys ==
    {"features_settings_title", "general_settings_title", "money_settings_title",
     "civilian_settings_title", "police_settings_title"}
    \cup {"label_" \o WidgetOrder[i][2] : i \in 1..Len(WidgetOrder)}

QLineEdit(text)    == [kind |-> "QLineEdit", text |-> text]
QCheckBox(checked) == [kind |-> "QCheckBox", checked |-> checked]

\* _add_checkbox_to_grid for the features, create_labeled_entry for the rest
NewControl(c) == IF c = "features" THEN QCheckBox(FALSE) ELSE QLineEdit(<<>>)

roleplay_dependent_widgets ==
    <<"speeding_bonus_enabled", "zigzag_bonus_enabled", "police_features_enabled",
      "civilian_settings_title", "police_settings_title">>

Dependents == {roleplay_dependent_widgets[i] : i \in 1..Len(roleplay_dependent_widgets)}

init_ui ==
    [ctl     |-> [c \in WidgetCategories |-> [k \in WidgetKeys(c) |-> NewControl(c)]],
     enabled |-> [d \in Dependents |-> TRUE]]

QIntValidatorBottom == 0
QIntValidatorTop == 999999999

\* what the QIntValidator of an entry lets the user leave in it
QIntValidator(s) ==
    \/ s = <<>>
    \/ /\ \A i \in 1..Len(s) : IsDigit(s[i])
       /\ DigitsToNat(s) >= QIntValidatorBottom
       /\ DigitsToNat(s) <= QIntValidatorTop

\* whether the user can operate the control: a disabled group box disables
\* the entries in it
IsEnabled(w, c, k) ==
    CASE c = "features" /\ k \in Dependents -> w.enabled[k]
      [] c = "civilian"                     -> w.enabled["civilian_settings_title"]
      [] c = "police"                       -> w.enabled["police_settings_title"]
      [] OTHER                              -> TRUE

\* a mutant of apply_feature_dependencies: disabling a checkbox unchecks it
apply_feature_dependencies_unchecking(w) ==
    LET is_enabled == w.ctl["features"]["roleplay_enabled"].checked
    IN  [w EXCEPT !.enabled = [d \in Dependents |-> is_enabled],
                  !.ctl["features"] =
                      [k \in DOMAIN @ |->
                          IF k \in Dependents /\ ~is_enabled THEN QCheckBox(FALSE) ELSE @[k]]]

apply_feature_dependencies(w) ==
    LET is_enabled == w.ctl["features"]["roleplay_enabled"].checked
    IN  [w EXCEPT !.enabled = [d \in Dependents |-> is_enabled]]

\* QCheckBox.setChecked: stateChanged fires, when the state changes, into the
\* slot connected to the roleplay checkbox
setChecked(w, c, k, b) ==
    LET w1 == [w EXCEPT !.ctl[c][k].checked = b]
    IN  IF c = "features" /\ k = "roleplay_enabled" /\ w.ctl[c][k].checked # b
        THEN apply_feature_dependencies(w1)
        ELSE w1

setText(w, c, k, s) == [w EXCEPT !.ctl[c][k].text = s]

----------------------------------------------------------------------------
(* load_config, populate_ui, save_config, reset_to_defaults *)

\* a mutant of setdefault: the default replaces the entry
setdefault_replacing(d, k, v) == v

\* the entry that dict.setdefault(k, v) leaves under k
setdefault(d, k, v) == IF k \in DOMAIN d THEN d[k] ELSE v

\* a mutant of with_defaults: only the categories the file lacks are filled
with_defaults_by_category(doc) ==
    [c \in (DOMAIN doc) \cup Categories |-> IF c \in DOMAIN doc THEN doc[c] ELSE DefaultsCopy[c]]

\* the defaulting pass of load_config over a parsed mapping whose recognised
\* categories are mappings
with_defaults(doc) ==
    [c \in (DOMAIN doc) \cup Categories |->
        IF c \in Categories
        THEN LET have == IF c \in DOMAIN doc THEN doc[c].d ELSE Unset
             IN  DictV([k \in (DOMAIN have) \cup Fields(c) |->
                            setdefault(have, k, FALLBACK_DEFAULTS[c].d[k])])
        ELSE doc[c]]

\* the defaulting pass raises TypeError when the parsed value is no mapping
\* and AttributeError when a recognised category holds no mapping
defaulting_raises(parsed) ==
    \/ parsed.t # "dict"
    \/ \E c \in Categories : c \in DOMAIN parsed.d /\ parsed.d[c].t # "dict"

RECURSIVE populate_from(_, _, _)
populate_from(w, doc, i) ==
    IF i > Len(WidgetOrder) THEN w
    ELSE LET c     == WidgetOrder[i][1]
             k     == WidgetOrder[i][2]
             value == IF c \in DOMAIN doc /\ k \in DOMAIN doc[c].d THEN doc[c].d[k] ELSE NullV
             w1    == IF value = NullV THEN w
                      ELSE IF w.ctl[c][k].kind = "QLineEdit" THEN setText(w, c, k, py_str(value))
                      ELSE setChecked(w, c, k, py_bool(value))
         IN  populate_from(w1, doc, i + 1)

\* populate_ui raises AttributeError when the document has a key under which
\* self.widgets holds a single widget
populate_raises(doc) == (DOMAIN doc) \cap LabelKeys # {}

\* a mutant of populate_ui: the closing apply_feature_dependencies is left out
populate_ui_without_apply(w, doc) == populate_from(w, doc, 1)

populate_ui(w, doc) == apply_feature_dependencies(populate_from(w, doc, 1))

\* the commit loop of save_config: the document as the loop leaves it, and
\* whether int() raised
RECURSIVE commit_from(_, _, _)
commit_from(doc, w, i) ==
    IF i > Len(WidgetOrder) THEN [doc |-> doc, raised |-> FALSE]
    ELSE LET c      == WidgetOrder[i][1]
             k      == WidgetOrder[i][2]
             widget == w.ctl[c][k]
         IN  IF c \notin DOMAIN doc THEN commit_from(doc, w, i + 1)
             ELSE IF widget.kind = "QLineEdit"
             THEN LET text_value == py_strip(widget.text)
                  IN  IF text_value = <<>>
                      THEN commit_from([doc EXCEPT ![c].d = Put(@, k, IntV(0))], w, i + 1)
                      ELSE IF py_int_ok(text_value)
                      THEN commit_from([doc EXCEPT ![c].d = Put(@, k, IntV(py_int(text_value)))],
                                       w, i + 1)
                      ELSE [doc |-> doc, raised |-> TRUE]
             ELSE commit_from([doc EXCEPT ![c].d = Put(@, k, BoolV(widget.checked))], w, i + 1)

commit(doc, w) == commit_from(doc, w, 1)

\* a mutant of OnDisk: only the recognised categories are written
OnDisk_recognised_only(doc) ==
    [kind |-> "json", json |-> json_dump(DictV([c \in Categories |-> doc[c]]))]

\* the file as json.dump writes the document
OnDisk(doc) == [kind |-> "json", json |-> json_dump(DictV(doc))]

\* how save_config ends
save_outcome(r, writable) ==
    IF r.raised THEN "input_error" ELSE IF writable THEN "saved" ELSE "io_error"

\* a mutant of file_after_save: the file is written whether or not int() raised
file_after_save_always(f, r, writable) == IF writable THEN OnDisk(r.doc) ELSE f

\* the file when save_config returns: open() and json.dump come after the
\* commit loop, inside the same try
file_after_save(f, r, writable) == IF ~r.raised /\ writable THEN OnDisk(r.doc) ELSE f

\* json.load of the file, or the fallback of the except clause
parsed_or_fallback(f) ==
    IF f.kind \in {"missing", "corrupt"} THEN DictV(DefaultsCopy) ELSE json_load(f.json)

\* open() and json.load raise what the except clause does not catch when the
\* bytes of the file are not UTF-8 (UnicodeDecodeError)
load_raises(f) ==
    \/ f.kind = "not_utf8"
    \/ defaulting_raises(parsed_or_fallback(f))
    \/ populate_raises(with_defaults(parsed_or_fallback(f).d))

\* the document load_config builds from a file it does not raise on
loaded_document(f) == with_defaults(parsed_or_fallback(f).d)

\* a mutant of reset_document: the defaults are merged into the document
reset_document_merging(doc) ==
    [c \in (DOMAIN doc) \cup Categories |-> IF c \in Categories THEN DefaultsCopy[c] ELSE doc[c]]

\* what reset_to_defaults assigns to self.config_data
reset_document(doc) == DefaultsCopy

----------------------------------------------------------------------------
(* Inputs *)

MaxTyped == 1

MaxOps == 4

Num(n) == JTok(py_str(IntV(n)))

Json(m) == [kind |-> "json", json |-> JObj(m)]

Files ==
    { [kind |-> "missing"],
      [kind |-> "corrupt"],
      [kind |-> "not_utf8"],
      [kind |-> "json", json |-> JTok(T_list)],
      Json(Unset),
      Json([money |-> JObj([starting_money |-> Num(500)])]),
      Json([money |-> Num(5)]),
      Json([features |-> JObj([roleplay_enabled |-> JTok(J_false)]),
            civilian |-> JObj([speeding_limit_kmh |-> Num(200)])]),
      Json([money |-> JObj([starting_money |-> Num(-5)])]),
      Json([money |-> JObj([starting_money |-> JTok(J_true)])]),
      Json([money |-> JObj([starting_money |-> JTok(J_null)])]),
      Json([money |-> JObj([starting_money |-> Num(QIntValidatorTop + 1)])]),
      Json([civilian |-> JObj([speeding_limit_kmh |-> JTok(Quoted(<<"a", "b", "c">>))])]),
      Json([features |-> JObj([roleplay_enabled |-> Num(1), cool_message_enabled |-> Num(0)])]),
      Json([extra |-> JObj([x |-> Num(1)]), money |-> JObj([bonus |-> Num(7)])]),
      Json([extra |-> Num(5), general |-> JObj(Unset)]),
      Json([general_settings_title |-> JObj(Unset)]) }

\* the controls the user operates
Clicked == {<<"features", "roleplay_enabled">>, <<"features", "speeding_bonus_enabled">>,
            <<"features", "cool_message_enabled">>}

Typed == {<<"money", "starting_money">>, <<"civilian", "speeding_limit_kmh">>}

\* what the user tries to leave in an entry
Texts ==
    {<<>>, <<"-", "1">>, NatToChars(QIntValidatorTop), NatToChars(QIntValidatorTop + 1)}
    \cup {NatToChars(n) : n \in 0..MaxTyped}

----------------------------------------------------------------------------
(* The state machine *)

Init ==
    /\ phase = "constructed"
    /\ ops = 0
    /\ file \in Files
    /\ config_data = Unset
    /\ widgets = init_ui
    /\ outcome = "constructed"

\* MainWindow.__init__ reaches load_config; an exception ends the program
load_config ==
    /\ phase = "constructed"
    /\ IF load_raises(file)
       THEN /\ phase' = "crashed"
            /\ outcome' = "crashed"
            /\ UNCHANGED <<config_data, widgets>>
       ELSE /\ phase' = "ready"
            /\ outcome' = "loaded"
            /\ config_data' = loaded_document(file)
            /\ widgets' = populate_ui(widgets, config_data')
    /\ UNCHANGED <<ops, file>>

\* the user clicks a checkbox
click(c, k) ==
    /\ phase = "ready"
    /\ ops < MaxOps
    /\ ops' = ops + 1
    /\ IsEnabled(widgets, c, k)
    /\ widgets' = setChecked(widgets, c, k, ~widgets.ctl[c][k].checked)
    /\ outcome' = "edited"
    /\ UNCHANGED <<phase, file, config_data>>

\* the user edits an entry
type(c, k, s) ==
    /\ phase = "ready"
    /\ ops < MaxOps
    /\ ops' = ops + 1
    /\ IsEnabled(widgets, c, k)
    /\ QIntValidator(s)
    /\ s # widgets.ctl[c][k].text
    /\ widgets' = setText(widgets, c, k, s)
    /\ outcome' = "edited"
    /\ UNCHANGED <<phase, file, config_data>>

\* the save button; writable is whether open(CONFIG_FILENAME, 'w') succeeds
save_config(writable) ==
    /\ phase = "ready"
    /\ ops < MaxOps
    /\ ops' = ops + 1
    /\ \E r \in {commit(config_data, widgets)} :
           /\ config_data' = r.doc
           /\ outcome' = save_outcome(r, writable)
           /\ file' = file_after_save(file, r, writable)
    /\ UNCHANGED <<phase, widgets>>

\* the reset button; reply is the answer to the confirmation box
reset_to_defaults(reply) ==
    /\ phase = "ready"
    /\ ops < MaxOps
    /\ ops' = ops + 1
    /\ IF reply = "Yes"
       THEN /\ config_data' = reset_document(config_data)
            /\ widgets' = populate_ui(widgets, config_data')
            /\ outcome' = "reset"
       ELSE /\ outcome' = "declined"
            /\ UNCHANGED <<config_data, widgets>>
    /\ UNCHANGED <<phase, file>>

\* the user closes the window and starts the program again
relaunch ==
    /\ phase = "ready"
    /\ ops < MaxOps
    /\ ops' = ops + 1
    /\ phase' = "constructed"
    /\ config_data' = Unset
    /\ widgets' = init_ui
    /\ outcome' = "constructed"
    /\ UNCHANGED file

Next ==
    \/ load_config
    \/ \E ck \in Clicked : click(ck[1], ck[2])
    \/ \E ck \in Typed : \E s \in Texts : type(ck[1], ck[2], s)
    \/ \E writable \in BOOLEAN : save_config(writable)
    \/ \E reply \in {"Yes", "No"} : reset_to_defaults(reply)
    \/ relaunch

Spec == Init /\ [][Next]_vars

----------------------------------------------------------------------------
(* Properties *)

Gate == widgets.ctl["features"]["roleplay_enabled"].checked

\* the recognised fields behind a roleplay-dependent widget
DependentFields ==
    {ck \in {WidgetOrder[i] : i \in 1..Len(WidgetOrder)} :
        \/ ck[1] \in {"civilian", "police"}
        \/ ck[1] = "features" /\ ck[2] \in Dependents}

Total(doc) ==
    \A c \in Categories :
        /\ c \in DOMAIN doc
        /\ doc[c].t = "dict"
        /\ \A k \in Fields(c) : k \in DOMAIN doc[c].d

\* every entry of the parsed mapping is in doc with the same value
Kept(parsed, doc) ==
    \A c \in DOMAIN parsed :
        /\ c \in DOMAIN doc
        /\ IF parsed[c].t = "dict"
           THEN /\ doc[c].t = "dict"
                /\ \A k \in DOMAIN parsed[c].d :
                       k \in DOMAIN doc[c].d /\ doc[c].d[k] = parsed[c].d[k]
           ELSE doc[c] = parsed[c]

\* the entries of doc that FALLBACK_DEFAULTS does not name
Unrecognised(doc) ==
    [c \in DOMAIN doc |->
        IF c \notin Categories THEN doc[c]
        ELSE DictV([k \in (DOMAIN doc[c].d) \ Fields(c) |-> doc[c].d[k]])]

\* the steps of each handler, told by the outcome they leave
LoadStep    == phase = "constructed" /\ phase' = "ready"
SaveStep    == ops' # ops /\ outcome' \in {"saved", "input_error", "io_error"}
FailedSave  == ops' # ops /\ outcome' = "input_error"
Saved       == ops' # ops /\ outcome' = "saved"
Confirmed   == ops' # ops /\ outcome' = "reset"
Declined    == ops' # ops /\ outcome' = "declined"
UserEdit    == ops' # ops /\ outcome' = "edited"
GateClicked == UserEdit /\ widgets'.ctl["features"]["roleplay_enabled"].checked
                               # widgets.ctl["features"]["roleplay_enabled"].checked

\* the value a control stands for when it is committed
ControlValue(widget) ==
    IF widget.kind = "QCheckBox" THEN BoolV(widget.checked)
    ELSE IF py_strip(widget.text) = <<>> THEN IntV(0)
    ELSE IntV(py_int(widget.text))

DependentControls(w) == [ck \in DependentFields |-> w.ctl[ck[1]][ck[2]]]

DependentValues(doc) == [ck \in DependentFields |-> doc[ck[1]].d[ck[2]]]

\* C1: once load_config has completed, the document holds an entry for every
\* (category, field) of FALLBACK_DEFAULTS, and keeps holding one through every
\* save, reset and edit.
C1_Totality == phase = "ready" => Total(config_data)

\* C1 witness: load_config has completed on a file that lacks the civilian
\* category and some money fields, and a save has failed since.
C1_Witness ==
    /\ phase = "ready"
    /\ outcome = "input_error"
    /\ file.kind = "json"
    /\ file.json.t = "object"
    /\ "civilian" \notin DOMAIN file.json.m
    /\ Total(config_data)

\* C2: load_config keeps every entry of the parsed file with the file's value,
\* recognised or not, and save_config keeps the unrecognised entries in the
\* document and in the file it writes.
C2_LoadKeepsEntries ==
    [][ /\ (LoadStep /\ file.kind = "json")
               => Kept(json_load(file.json).d, config_data')
        /\ SaveStep => /\ Unrecognised(config_data') = Unrecognised(config_data)
                       /\ Saved =>
                              Unrecognised(json_load(file'.json).d) = Unrecognised(config_data)
      ]_vars

\* C2 witness: a file with an unrecognised category and an unrecognised field
\* was loaded and saved again, and both are in the written file.
C2_Witness ==
    /\ outcome = "saved"
    /\ "extra" \in DOMAIN config_data
    /\ "bonus" \in DOMAIN config_data["money"].d
    /\ "extra" \in DOMAIN file.json.m

\* what C3 calls a file that is missing or fails to parse as a nested mapping
NotNestedMapping(f) ==
    \/ f.kind \in {"missing", "corrupt", "not_utf8"}
    \/ json_load(f.json).t # "dict"
    \/ \E c \in DOMAIN json_load(f.json).d : json_load(f.json).d[c].t # "dict"

\* C3 (as claimed): when the file is missing or does not parse as a nested
\* mapping, load_config raises nothing and every recognised field of the
\* document equals its default.
C3_LoadNeverFails ==
    (outcome \in {"loaded", "crashed"} /\ NotNestedMapping(file))
        => /\ phase = "ready"
           /\ \A c \in Categories : \A k \in Fields(c) :
                  config_data[c].d[k] = FALLBACK_DEFAULTS[c].d[k]

\* C4 (as claimed): a save_config called while a text field cannot be parsed
\* leaves config_data as it was before the call.
C4_FailedSaveLeavesDocument ==
    [][ FailedSave => config_data' = config_data ]_vars

\* C5: a save_config that ends in the input error does not write the file.
C5_FailedSaveLeavesFile ==
    [][ FailedSave => file' = file ]_vars

\* C5 witness: a save has failed after the loop committed part of the
\* widgets, and the file still holds the older document.
C5_Witness ==
    /\ outcome = "input_error"
    /\ file.kind = "json"
    /\ ~load_raises(file)
    /\ DependentValues(loaded_document(file)) # DependentValues(config_data)

\* C6: a confirmed reset leaves a document equal to FALLBACK_DEFAULTS whatever
\* the document was; a declined reset changes neither the document nor the
\* widgets.
C6_ResetAllOrNothing ==
    [][ /\ Confirmed => config_data' = FALLBACK_DEFAULTS
        /\ Declined => UNCHANGED <<config_data, widgets>>
      ]_vars

\* C6 witness: a reset was confirmed on a document that came from a file with
\* an unrecognised category.
C6_Witness ==
    /\ outcome = "reset"
    /\ file.kind = "json"
    /\ file.json.t = "object"
    /\ "extra" \in DOMAIN file.json.m
    /\ config_data = FALLBACK_DEFAULTS

\* C7: after a successful save, load_config of the written file builds the
\* document that was saved, unrecognised entries included.
C7_RoundTrip ==
    outcome = "saved" => /\ ~load_raises(file)
                         /\ loaded_document(file) = config_data

\* C7 witness: a document the user edited (an emptied entry, committed as 0)
\* has been saved.
C7_Witness ==
    /\ outcome = "saved"
    /\ config_data["money"].d["starting_money"] = IntV(0)
    /\ widgets.ctl["money"]["starting_money"].text = <<>>

\* C8 (as claimed): every recognised integer field holds an integer in
\* 0..999999999 and every recognised boolean field holds true or false.
C8_TypeStability ==
    phase = "ready" =>
        \A c \in Categories : \A k \in Fields(c) :
            IF FALLBACK_DEFAULTS[c].d[k].t = "int"
            THEN /\ config_data[c].d[k].t = "int"
                 /\ config_data[c].d[k].i >= QIntValidatorBottom
                 /\ config_data[c].d[k].i <= QIntValidatorTop
            ELSE config_data[c].d[k].t = "bool"

\* C9 (as claimed): clicking roleplay_enabled changes no stored value of a
\* dependent field, and a save made while roleplay_enabled is unchecked writes
\* each dependent field with the value the document held for it.
C9_DisabledFieldsKeepStoredValue ==
    [][ /\ GateClicked => DependentValues(config_data') = DependentValues(config_data)
        /\ (Saved /\ ~Gate)
            => DependentValues(json_load(file'.json).d) = DependentValues(config_data)
      ]_vars

\* C9 (amended): clicking roleplay_enabled changes no stored value and no
\* control value of a dependent field; while roleplay_enabled is unchecked no
\* click or edit changes a dependent control; and a save made while it is
\* unchecked writes each dependent field with the value its control holds.
C9_DisabledFieldsKeepControlValue ==
    [][ /\ GateClicked => /\ DependentValues(config_data') = DependentValues(config_data)
                           /\ DependentControls(widgets') = DependentControls(widgets)
        /\ (UserEdit /\ ~Gate) => DependentControls(widgets') = DependentControls(widgets)
        /\ (Saved /\ ~Gate)
            => \A ck \in DependentFields :
                   json_load(file'.json).d[ck[1]].d[ck[2]]
                       = ControlValue(widgets.ctl[ck[1]][ck[2]])
      ]_vars

\* C9 witness: a dependent checkbox was unchecked, then roleplay_enabled was
\* unchecked, and the save wrote the dependent checkbox as the user left it.
C9_Witness ==
    /\ outcome = "saved"
    /\ ~Gate
    /\ ~widgets.enabled["speeding_bonus_enabled"]
    /\ json_load(file.json).d["features"].d["speeding_bonus_enabled"] = BoolV(FALSE)

\* C10: once load_config has completed, each roleplay-dependent widget is
\* enabled exactly when the roleplay_enabled checkbox is checked.
C10_EnabledIffRoleplay ==
    phase = "ready" => \A d \in Dependents : widgets.enabled[d] = Gate

\* C10 witness: load_config read roleplay_enabled false, which leaves the
\* checkbox as init_ui built it, and the dependent widgets are disabled.
C10_Witness ==
    /\ phase = "ready"
    /\ outcome = "loaded"
    /\ ~Gate
    /\ \A d \in Dependents : ~widgets.enabled[d]

====
